---- MODULE Spec2Model ----
(***************************************************************************)
(* A model of the torrent client core of ds_torrent:                       *)
(*   src/src/core/torrent_client.py  (TorrentHandle, TorrentClient)        *)
(*   src/src/gui/main_window.py      (the GUI thread that calls the core)  *)
(* The libtorrent session is an external engine; only what the client      *)
(* reads from it and asks of it is modelled.                               *)
(***************************************************************************)
EXTENDS Integers, Sequences, FiniteSets, TLC

\* ---------------------------------------------------------------- bounds
MaxHashes == 2      \* identity hashes the engine can hand out
MaxAdds == 2        \* TorrentHandle wrappers created by add_torrent
MaxAlerts == 2      \* alerts the engine posts
MaxBlob == 2        \* distinct resume payloads
MaxRate == 1        \* engine transfer rates, in KiB/s
MaxBytes == 2       \* byte counters of a status struct
MaxKeys == 2        \* setting names the engine accepts
MaxFiles == 2       \* files of a torrent

\* ------------------------------------------------------ program constants
Kib == 1024         \* download_rate / 1024
NormalPriority == 4     \* "Normal Priority": 4, the engine's default
MaximalPriority == 7    \* "Maximal Priority": 7

Hashes == 1..MaxHashes
Blobs == 1..MaxBlob
Rates == {r * Kib : r \in 0..MaxRate}
None == "None"
NoHandle == [hash |-> 0, inst |-> 0]

VARIABLES
    torrents,       \* self.torrents: info_hash -> TorrentHandle wrapper
    session,        \* the engine's torrents: info_hash -> engine torrent
    settings,       \* the engine's settings pack (session.get_settings())
    alertQueue,     \* alerts the engine holds until pop_alerts()
    saveRequests,   \* handles with an outstanding save_resume_data() request
    resumeFiles,    \* the resume directory: file path -> file content
    nextObj,        \* next TorrentHandle wrapper identity
    nextInst,       \* next engine torrent identity
    posted,         \* alerts the engine has posted so far
    alerts,         \* _monitor_alerts: the batch popped by pop_alerts()
    alertIdx,       \* _monitor_alerts: position of the for loop in the batch
    alertPc,        \* _monitor_alerts: position in the loop body
    alertHash,      \* _monitor_alerts: info_hash_str of the current alert
    alertExc,       \* _monitor_alerts: the except clause ran in this iteration
    statusPc,       \* _update_status: position in the loop body
    statusTodo,     \* _update_status: the dict iterator of the for loop
    statusRead,     \* _update_status: what get_status has read, << >> or <<r>>
    call,           \* GUI thread: the operation called last, with its result
    callerPc,       \* GUI thread: position inside the operation
    emitted,        \* signals emitted by the last step
    completedEmits, \* completed signals emitted so far, per wrapper
    awaitSnap,      \* hashes paused by pause(), no status_updated emitted since
    probe,          \* get_status on its own: the inputs it reads
    snap,           \* get_status on its own: << >> or <<the status_dict>>
    stateFile,      \* app_state.json: << >> or <<the state document>>
    shutdown,       \* closeEvent: torrents still to visit, saves requested,
                    \* whether time.sleep(1.0) has returned
    torrent_hashes, \* TorrentTableWidget.torrent_hashes: row -> info_hash
    window          \* MainWindow: position of the GUI thread in
                    \* load_app_state, and the saved torrents still to restore

vars == <<torrents, session, settings, alertQueue, saveRequests, resumeFiles,
          nextObj, nextInst, posted, alerts, alertIdx, alertPc, alertHash,
          alertExc, statusPc, statusTodo, statusRead, call, callerPc, emitted,
          completedEmits, awaitSnap, probe, snap, stateFile, shutdown,
          torrent_hashes, window>>

engineVars == <<session, settings, alertQueue, saveRequests, nextInst, posted>>
alertVars == <<alerts, alertIdx, alertPc, alertHash, alertExc>>
statusVars == <<statusPc, statusTodo, statusRead>>
callerVars == <<call, callerPc>>
pureVars == <<probe, snap>>
windowVars == <<torrent_hashes, window>>
guiVars == <<stateFile, shutdown, windowVars>>

\* ------------------------------------------------------------- helpers

\* A signal emission: which signal, of which wrapper (0: the client's own),
\* for which info_hash, with the rates of a status_dict and a message.
Sig(sig, obj, hash, dl, ul, msg) ==
    [sig |-> sig, obj |-> obj, hash |-> hash, dl |-> dl, ul |-> ul, msg |-> msg,
     n |-> 0]

\* client_status_updated: the number of torrents and the two summed rates.
AggregateSig(n, dl, ul) ==
    [sig |-> "client_status_updated", obj |-> 0, hash |-> 0, dl |-> dl,
     ul |-> ul, msg |-> "", n |-> n]

\* handle.is_valid(): the engine still holds the torrent the handle refers to.
is_valid(handle) ==
    /\ handle.hash \in DOMAIN session
    /\ session[handle.hash].inst = handle.inst

\* handle.status(): the engine's status struct of a valid handle.
status(handle) == session[handle.hash]

\* d with key k bound to v (d[k] = v), and d without key k (del d[k]).
DictSet(d, k, v) == [x \in DOMAIN d \cup {k} |-> IF x = k THEN v ELSE d[x]]
DictDel(d, k) == [x \in DOMAIN d \ {k} |-> d[x]]

SharedResumePath(h) == [dir |-> "resume", name |-> 0]

\* _get_resume_filepath(info_hash_str):
\* os.path.join(self.resume_data_dir, f"{info_hash_str}.fastresume")
get_resume_filepath(h) == [dir |-> "resume", name |-> h]

\* load_app_state reading the resume file of a saved torrent from the resume
\* directory: the bytes of the file when it exists (0 for a file without
\* bytes, which add_torrent treats as None), None (0) otherwise.
load_resume_data(files, h) ==
    LET resume_file == get_resume_filepath(h)
    IN IF resume_file \in DOMAIN files THEN files[resume_file] ELSE 0

\* The GUI thread's current or last call: operation, info_hash argument,
\* its other arguments, and what it returned (with the identity of the wrapper
\* when it returned one).
Call(op, hash, arg, ret, obj) ==
    [op |-> op, hash |-> hash, arg |-> arg, ret |-> ret, obj |-> obj]

\* ------------------------------------------------- TorrentHandle.get_status
Inf == [inf |-> TRUE, num |-> 0, den |-> 1]
Frac(n, d) == [inf |-> FALSE, num |-> n, den |-> d]

\* name, total_size = ... : 0 unless the handle or the status struct reports
\* metadata, then info.total_size().
total_size(s) ==
    IF s.handle_has_metadata \/ s.has_metadata THEN s.info_total_size ELSE 0

EtaBoundaryWrong(total, s) ==
    IF s.download_payload_rate > 0 /\ total >= s.total_done
    THEN Frac(total - s.total_done, s.download_payload_rate)
    ELSE Inf

\* eta_seconds = (total_size - total_done) / download_payload_rate
\*               if download_payload_rate > 0 and total_size > total_done else inf
eta_seconds(total, s) ==
    IF s.download_payload_rate > 0 /\ total > s.total_done
    THEN Frac(total - s.total_done, s.download_payload_rate)
    ELSE Inf

RatioGuardsUpload(s) ==
    IF s.total_payload_upload > 0
    THEN Frac(s.total_payload_upload, s.total_payload_download)
    ELSE Frac(0, 1)

\* ratio = total_payload_upload / total_payload_download
\*         if total_payload_download > 0 else 0.0
ratio(s) ==
    IF s.total_payload_download > 0
    THEN Frac(s.total_payload_upload, s.total_payload_download)
    ELSE Frac(0, 1)

\* The state and the two displayed rates: a paused status shows "paused", 0, 0.
state_and_speeds(s) ==
    IF s.paused
    THEN [state |-> "paused", download_rate |-> 0, upload_rate |-> 0]
    ELSE [state |-> s.state,
          download_rate |-> s.download_rate \div Kib,
          upload_rate |-> s.upload_rate \div Kib]

\* The status_dict get_status builds from the status struct s of the handle
\* and the wrapper's last_error.
status_dict(s, last_error) ==
    LET total == total_size(s)
        sp == state_and_speeds(s)
    IN [name |-> IF s.handle_has_metadata \/ s.has_metadata
                 THEN "name" ELSE "Fetching metadata...",
        download_rate |-> sp.download_rate,
        upload_rate |-> sp.upload_rate,
        state |-> sp.state,
        total_size |-> total,
        has_metadata |-> s.has_metadata,
        error |-> last_error,
        eta |-> eta_seconds(total, s),
        ratio |-> ratio(s)]

\* The status structs an engine torrent can report.
NewStatus(inst, md) ==
    [inst |-> inst, handle_has_metadata |-> md, has_metadata |-> md,
     paused |-> FALSE, auto_managed |-> TRUE, state |-> "downloading",
     download_rate |-> 0, upload_rate |-> 0,
     download_payload_rate |-> 0, total_done |-> 0, info_total_size |-> 0,
     total_payload_upload |-> 0, total_payload_download |-> 0,
     resume_data |-> 0, seed_mode |-> FALSE, upload_mode |-> FALSE,
     rechecks |-> 0,
     num_files |-> MaxFiles,
     file_priorities |-> [i \in 0..(MaxFiles - 1) |-> NormalPriority]]

StatusStructs ==
    [inst : {1}, handle_has_metadata : BOOLEAN, has_metadata : BOOLEAN,
     paused : BOOLEAN, auto_managed : {TRUE}, state : {"downloading"},
     download_rate : Rates, upload_rate : {0},
     download_payload_rate : 0..MaxRate, total_done : 0..MaxBytes,
     info_total_size : 0..MaxBytes,
     total_payload_upload : 0..MaxBytes, total_payload_download : 0..MaxBytes,
     resume_data : {0}, seed_mode : {FALSE}, upload_mode : {FALSE},
     rechecks : {0},
     num_files : {MaxFiles},
     file_priorities : {[i \in 0..(MaxFiles - 1) |-> NormalPriority]}]

\* ------------------------------------------------------------ construction
\* TorrentClient.__init__: an empty registry, both loops about to start.
\* The program's memory once TorrentClient and the main window's widgets
\* are constructed.
InitMemory ==
    /\ torrents = << >>
    /\ session = << >>
    /\ settings = [k \in 1..MaxKeys |-> 0]
    /\ alertQueue = << >>
    /\ saveRequests = {}
    /\ nextObj = 1
    /\ nextInst = 1
    /\ posted = 0
    /\ alerts = << >>
    /\ alertIdx = 1
    /\ alertPc = "poll"
    /\ alertHash = 0
    /\ alertExc = FALSE
    /\ statusPc = "tick"
    /\ statusTodo = [keys |-> << >>, used |-> 0, seen |-> {}]
    /\ statusRead = << >>
    /\ call = Call("none", 0, << >>, None, 0)
    /\ callerPc = "idle"
    /\ emitted = << >>
    /\ completedEmits = [o \in 1..MaxAdds |-> 0]
    /\ awaitSnap = {}
    /\ shutdown = [todo |-> << >>, requested |-> {}, slept |-> FALSE]
    /\ torrent_hashes = << >>

\* The main window outside load_app_state.
WindowIdle == [pc |-> "idle", saved_torrents |-> << >>]

\* A first start: no resume file, no state file, nothing to restore.
InitClient ==
    /\ InitMemory
    /\ resumeFiles = << >>
    /\ stateFile = << >>
    /\ window = WindowIdle

ProbeIdle ==
    /\ probe = [s |-> NewStatus(1, FALSE), last_error |-> None]
    /\ snap = << >>

\* --------------------------------------- get_status as a function of inputs
InitStatus ==
    /\ InitClient
    /\ probe \in [s : StatusStructs, last_error : {None, "e1"}]
    /\ snap = << >>

\* One evaluation of get_status's try block on the probed status struct.
GetStatusCall ==
    /\ snap = << >>
    /\ snap' = <<status_dict(probe.s, probe.last_error)>>
    /\ UNCHANGED <<torrents, engineVars, resumeFiles, nextObj, alertVars,
                   statusVars, callerVars, emitted, completedEmits, awaitSnap,
                   probe, guiVars>>

NextStatus == GetStatusCall

SpecStatus == InitStatus /\ [][NextStatus]_vars

\* ------------------------------------------------------------- observers
\* What the emissions of a step add to the record of emissions: the number of
\* completed signals per wrapper, and the hashes whose handle pause() has
\* paused with no status_updated emitted since.
Emissions(seq, sig) == {i \in 1..Len(seq) : seq[i].sig = sig}

Observe ==
    /\ completedEmits' =
        [o \in DOMAIN completedEmits |->
            completedEmits[o]
            + Cardinality({i \in Emissions(emitted', "completed") :
                                emitted'[i].obj = o})]
    /\ awaitSnap' =
        LET snapped == {emitted'[i].hash :
                            i \in {j \in 1..Len(emitted') :
                                    emitted'[j].sig = "status_updated"}}
            called == IF callerPc = "pause_handle" /\ callerPc' = "pause_auto"
                      THEN {call.hash} ELSE {}
        IN (awaitSnap \ snapped) \cup called

\* The signals of get_status() followed by "if status: status_updated.emit":
\* the status_dict of a valid handle, or, when handle.status() raises, the
\* wrapper's error signal.
StatusSignals(w) ==
    IF is_valid(w.handle)
    THEN LET d == status_dict(status(w.handle), w.last_error)
         IN <<Sig("status_updated", w.obj, w.handle.hash,
                  d.download_rate, d.upload_rate, "")>>
    ELSE <<Sig("error", w.obj, w.handle.hash, 0, 0, "invalid torrent handle")>>

StatusClearsError(w) == [w EXCEPT !.last_error = None]

\* The wrapper after get_status(): last_error is set when status() raised.
AfterStatus(w) ==
    IF is_valid(w.handle) THEN w
    ELSE [w EXCEPT !.last_error = "invalid torrent handle"]

\* --------------------------------------------------- TorrentClient.add_torrent
\* session.add_torrent(params) for info-hash h: the outcomes of the engine
\* call. A hash the session already holds yields the existing handle or an
\* error; a new one yields a new torrent, an invalid handle or an error.
engine_add_torrent(h) ==
    IF h \in DOMAIN session
    THEN {[raised |-> TRUE, new |-> FALSE, handle |-> NoHandle],
          [raised |-> FALSE, new |-> FALSE,
           handle |-> [hash |-> h, inst |-> session[h].inst]]}
    ELSE {[raised |-> TRUE, new |-> FALSE, handle |-> NoHandle],
          [raised |-> FALSE, new |-> FALSE, handle |-> NoHandle],
          [raised |-> FALSE, new |-> TRUE,
           handle |-> [hash |-> h, inst |-> nextInst]]}

ParamsAnySource(kind, resume, completed) ==
    IF completed /\ resume # 0
    THEN [resume_data |-> resume, seed_mode |-> TRUE, upload_mode |-> FALSE]
    ELSE [resume_data |-> resume, seed_mode |-> FALSE, upload_mode |-> FALSE]

SeedOnCompletedHint(kind, resume, completed) ==
    IF kind = "magnet"
    THEN [resume_data |-> 0, seed_mode |-> FALSE, upload_mode |-> FALSE]
    ELSE [resume_data |-> resume, seed_mode |-> completed, upload_mode |-> FALSE]

\* The resume_data and the seed_mode and upload_mode flags add_torrent puts
\* into params: nothing for a magnet; for a .torrent file the resume data
\* when given, with seed_mode when the completed hint is given too. No branch
\* sets upload_mode.
add_params(kind, resume, completed) ==
    IF kind = "magnet"
    THEN [resume_data |-> 0, seed_mode |-> FALSE, upload_mode |-> FALSE]
    ELSE IF completed /\ resume # 0
         THEN [resume_data |-> resume, seed_mode |-> TRUE, upload_mode |-> FALSE]
         ELSE [resume_data |-> resume, seed_mode |-> FALSE, upload_mode |-> FALSE]

RecheckAnySource(kind, resume, completed) == resume # 0 \/ completed

\* "handle.force_recheck()" is reached: a file-backed source with resume data
\* or the completed hint.
recheck_at_add(kind, resume, completed) ==
    kind # "magnet" /\ (resume # 0 \/ completed)

\* handle.force_recheck(): whether the engine call raises, when it is made.
force_recheck_raises(kind, resume, completed) ==
    IF recheck_at_add(kind, resume, completed) THEN BOOLEAN ELSE {FALSE}

RegisterNothing(reg, h, w) == reg

\* self.torrents[info_hash] = torrent_handle_wrapper
register(reg, h, w) == DictSet(reg, h, w)

\* add_torrent(source, save_path, resume_data_bytes, is_completed_on_load) for
\* a source of the given kind that names info-hash h; parses: the magnet URI
\* parses, or the .torrent file loads. The wrapper is registered before
\* force_recheck and the torrent_added emission; when force_recheck raises,
\* the outer except clause emits the client's error signal and add_torrent
\* returns None.
add_torrent_call(kind, h, parses, resume, completed) ==
    /\ callerPc = "idle"
    /\ nextObj <= MaxAdds
    /\ LET failed == Call("add_torrent", h, <<kind, resume, completed>>, None, 0)
       IN
       IF ~parses
       THEN /\ emitted' = <<Sig("client_error", 0, 0, 0, 0, "Error processing source")>>
            /\ call' = failed
            /\ UNCHANGED <<torrents, session, nextInst, nextObj>>
       ELSE \E out \in engine_add_torrent(h) :
            IF out.raised
            THEN /\ emitted' = <<Sig("client_error", 0, 0, 0, 0, "Error processing source")>>
                 /\ call' = failed
                 /\ UNCHANGED <<torrents, session, nextInst, nextObj>>
            ELSE IF out.handle = NoHandle
            THEN /\ emitted' = <<Sig("client_error", 0, 0, 0, 0, "Failed to add torrent")>>
                 /\ call' = failed
                 /\ UNCHANGED <<torrents, session, nextInst, nextObj>>
            ELSE \E raised \in force_recheck_raises(kind, resume, completed) :
                 LET p == add_params(kind, resume, completed)
                     added == IF out.new
                              THEN DictSet(session, h,
                                     [NewStatus(nextInst, kind = "file") EXCEPT
                                        !.resume_data = p.resume_data,
                                        !.seed_mode = p.seed_mode,
                                        !.upload_mode = p.upload_mode])
                              ELSE session
                     w == [obj |-> nextObj, handle |-> out.handle,
                           source |-> kind, is_completed_flag |-> completed,
                           last_error |-> None]
                 IN /\ session' =
                        IF recheck_at_add(kind, resume, completed) /\ ~raised
                        THEN [added EXCEPT ![h].rechecks = @ + 1]
                        ELSE added
                    /\ nextInst' = IF out.new THEN nextInst + 1 ELSE nextInst
                    /\ torrents' = register(torrents, h, w)
                    /\ nextObj' = nextObj + 1
                    /\ emitted' =
                        IF raised
                        THEN <<Sig("client_error", 0, 0, 0, 0,
                                   "Outer scope error adding torrent")>>
                        ELSE <<Sig("torrent_added", nextObj, h, 0, 0, "")>>
                    /\ call' =
                        IF raised THEN failed
                        ELSE Call("add_torrent", h, <<kind, resume, completed>>,
                                  "wrapper", nextObj)
    /\ UNCHANGED <<settings, alertQueue, saveRequests, posted, resumeFiles,
                   alertVars, statusVars, callerPc, pureVars>>
    /\ Observe

\* add_torrent called with no slot of the main window connected to
\* torrent_added.
add_torrent(kind, h, parses, resume, completed) ==
    /\ add_torrent_call(kind, h, parses, resume, completed)
    /\ UNCHANGED guiVars

\* ------------------------------------------------ TorrentClient.remove_torrent
\* The GUI thread calls remove_torrent(h, delete_files). What the engine does
\* with the downloaded content is outside the model, so delete_files has no
\* effect on it.
CallRemove(h) ==
    /\ callerPc = "idle"
    /\ call' = Call("remove_torrent", h, << >>, "running", 0)
    /\ callerPc' = "remove_check"
    /\ emitted' = << >>
    /\ UNCHANGED <<torrents, engineVars, resumeFiles, nextObj, alertVars,
                   statusVars, pureVars>>
    /\ UNCHANGED guiVars
    /\ Observe

TrackedAlways(h) == TRUE

\* "if info_hash in self.torrents:"
tracked(h) == h \in DOMAIN torrents

\* remove_torrent up to the request for a final resume-data save: nothing
\* happens for a hash that is not tracked; inside the try, the lookup
\* self.torrents[info_hash] raises KeyError for a missing entry, and a valid
\* handle is asked to save its resume data.
remove_torrent ==
    /\ callerPc = "remove_check"
    /\ LET h == call.hash
       IN IF ~tracked(h)
          THEN /\ call' = [call EXCEPT !.ret = None]
               /\ callerPc' = "idle"
               /\ emitted' = << >>
               /\ UNCHANGED saveRequests
          ELSE IF h \notin DOMAIN torrents
          THEN /\ call' = [call EXCEPT !.ret = "error"]
               /\ callerPc' = "idle"
               /\ emitted' = <<Sig("client_error", 0, 0, 0, 0, "Error removing torrent")>>
               /\ UNCHANGED saveRequests
          ELSE /\ saveRequests' =
                    IF is_valid(torrents[h].handle)
                    THEN saveRequests \cup {torrents[h].handle}
                    ELSE saveRequests
               /\ callerPc' = "remove_session"
               /\ emitted' = << >>
               /\ UNCHANGED call
    /\ UNCHANGED <<torrents, session, settings, alertQueue, nextInst, posted,
                   resumeFiles, nextObj, alertVars, statusVars, pureVars>>
    /\ UNCHANGED guiVars
    /\ Observe

\* self.session.remove_torrent(handle, ...): raises on a handle the engine no
\* longer knows, and the except clause emits the client's error signal.
remove_from_session ==
    /\ callerPc = "remove_session"
    /\ LET handle == torrents[call.hash].handle
       IN IF is_valid(handle)
          THEN /\ session' = DictDel(session, handle.hash)
               /\ emitted' = << >>
               /\ callerPc' = "remove_file"
               /\ UNCHANGED call
          ELSE /\ emitted' = <<Sig("client_error", 0, 0, 0, 0, "Error removing torrent")>>
               /\ callerPc' = "idle"
               /\ call' = [call EXCEPT !.ret = "error"]
               /\ UNCHANGED session
    /\ UNCHANGED <<torrents, settings, alertQueue, saveRequests, nextInst,
                   posted, resumeFiles, nextObj, alertVars, statusVars, pureVars>>
    /\ UNCHANGED guiVars
    /\ Observe

TruncateFile(files, path) ==
    IF path \in DOMAIN files THEN DictSet(files, path, 0) ELSE files

\* os.remove(path) on the resume directory: the file is gone.
os_remove(files, path) == DictDel(files, path)

\* "if os.path.exists(resume_filepath): os.remove(resume_filepath)"
remove_resume_file ==
    /\ callerPc = "remove_file"
    /\ resumeFiles' = os_remove(resumeFiles, get_resume_filepath(call.hash))
    /\ emitted' = << >>
    /\ callerPc' = "remove_del"
    /\ UNCHANGED <<torrents, engineVars, nextObj, alertVars, statusVars, call,
                   pureVars>>
    /\ UNCHANGED guiVars
    /\ Observe

\* "del self.torrents[info_hash]"
remove_del ==
    /\ callerPc = "remove_del"
    /\ torrents' = DictDel(torrents, call.hash)
    /\ emitted' = << >>
    /\ callerPc' = "idle"
    /\ call' = [call EXCEPT !.ret = "done"]
    /\ UNCHANGED <<engineVars, resumeFiles, nextObj, alertVars, statusVars,
                   pureVars>>
    /\ UNCHANGED guiVars
    /\ Observe

\* ----------------------------------------------------------- the engine
RegistryAlerts ==
    {"metadata_received", "metadata_failed", "torrent_finished", "torrent_error"}

Alert(type, handle, error, resume_data) ==
    [type |-> type, handle |-> handle, error |-> error, resume_data |-> resume_data]

\* The engine posts an alert about one of its torrents.
EnginePostAlert(type, h) ==
    /\ posted < MaxAlerts
    /\ h \in DOMAIN session
    /\ alertQueue' = Append(alertQueue,
                            Alert(type, [hash |-> h, inst |-> session[h].inst],
                                  IF type \in {"metadata_failed", "torrent_error"}
                                  THEN "e1" ELSE "", 0))
    /\ posted' = posted + 1
    /\ emitted' = << >>
    /\ UNCHANGED <<torrents, session, settings, saveRequests, nextInst,
                   resumeFiles, nextObj, alertVars, statusVars, callerVars,
                   pureVars>>
    /\ UNCHANGED guiVars
    /\ Observe

\* The engine answers a save_resume_data() request: a save_resume_data_alert
\* carrying the payload while it still holds the torrent, or a
\* save_resume_data_failed_alert.
EngineAnswerSave(handle, blob) ==
    /\ posted < MaxAlerts
    /\ handle \in saveRequests
    /\ saveRequests' = saveRequests \ {handle}
    /\ alertQueue' = Append(alertQueue,
                            IF blob # 0 /\ is_valid(handle)
                            THEN Alert("save_resume_data", handle, "", blob)
                            ELSE Alert("save_resume_data_failed", handle, "e1", 0))
    /\ posted' = posted + 1
    /\ emitted' = << >>
    /\ UNCHANGED <<torrents, session, settings, nextInst, resumeFiles, nextObj,
                   alertVars, statusVars, callerVars, pureVars>>
    /\ UNCHANGED guiVars
    /\ Observe

\* ------------------------------------------- TorrentClient._monitor_alerts
\* "alerts = self.session.pop_alerts()", at the top of the try block.
AlertPoll ==
    /\ alertPc = "poll"
    /\ alerts' = alertQueue
    /\ alertQueue' = << >>
    /\ alertIdx' = 1
    /\ alertExc' = FALSE
    /\ alertHash' = 0
    /\ alertPc' = IF alertQueue = << >> THEN "sleep" ELSE "check"
    /\ emitted' = << >>
    /\ UNCHANGED <<torrents, session, settings, saveRequests, nextInst, posted,
                   resumeFiles, nextObj, statusVars, callerVars, pureVars>>
    /\ UNCHANGED guiVars
    /\ Observe

\* The for loop moves to the next alert of the batch, or the try block ends.
NextAlert ==
    /\ alertIdx' = alertIdx + 1
    /\ alertPc' = IF alertIdx < Len(alerts) THEN "check" ELSE "sleep"

HashOfAnyHandle(a) == IF a.handle # NoHandle THEN a.handle.hash ELSE 0

\* info_hash_str of an alert: the hash of its handle when that is valid.
info_hash_str(a) ==
    IF a.handle # NoHandle /\ is_valid(a.handle) THEN a.handle.hash ELSE 0

BranchAlsoFailedSave(a) ==
    LET h == info_hash_str(a)
    IN CASE a.type \in RegistryAlerts -> h # 0 /\ h \in DOMAIN torrents
         [] a.type = "save_resume_data" -> h # 0 /\ a.resume_data # 0
         [] OTHER -> h # 0

\* The condition guarding the branch of the alert's type; the branch of a
\* save_resume_data_failed alert only logs, as does the absence of a branch.
branch_taken(a) ==
    LET h == info_hash_str(a)
    IN CASE a.type \in RegistryAlerts -> h # 0 /\ h \in DOMAIN torrents
         [] a.type = "save_resume_data" -> h # 0 /\ a.resume_data # 0
         [] OTHER -> FALSE

\* Head of the loop body: info_hash_str, isinstance, and the branch condition.
AlertCheck ==
    /\ alertPc = "check"
    /\ LET a == alerts[alertIdx]
       IN IF branch_taken(a)
          THEN /\ alertHash' = info_hash_str(a)
               /\ alertPc' = "body"
               /\ UNCHANGED alertIdx
          ELSE /\ alertHash' = 0
               /\ NextAlert
    /\ emitted' = << >>
    /\ UNCHANGED <<torrents, engineVars, resumeFiles, nextObj, alerts, alertExc,
                   statusVars, callerVars, pureVars>>
    /\ UNCHANGED guiVars
    /\ Observe

RaiseEndsLoop ==
    /\ alertExc' = TRUE
    /\ alertPc' = "stopped"
    /\ UNCHANGED alertIdx

\* "except Exception as e: logger.error(...)": the exception leaves the for
\* loop and the try block; what is left of the batch is dropped.
alert_raises ==
    /\ alertExc' = TRUE
    /\ alertPc' = "sleep"
    /\ UNCHANGED alertIdx

\* The wrapper after a torrent_finished_alert, and whether completed is emitted.
finish(w) == [w EXCEPT !.is_completed_flag = TRUE]

NotifyAlways(w) == TRUE

\* "should_notify = not torrent_obj.is_completed_flag"
should_notify(w) == ~w.is_completed_flag

\* The branch of a registry alert, after its condition held: the lookups of
\* self.torrents[info_hash_str] raise KeyError when the entry is gone.
registry_branch(a, h) ==
    IF h \notin DOMAIN torrents
    THEN /\ alert_raises
         /\ emitted' = << >>
         /\ UNCHANGED torrents
    ELSE LET w == torrents[h]
             w1 == CASE a.type \in {"metadata_failed", "torrent_error"} ->
                          [w EXCEPT !.last_error = a.error]
                     [] a.type = "torrent_finished" -> finish(w)
                     [] OTHER -> w
             first == CASE a.type \in {"metadata_failed", "torrent_error"} ->
                             <<Sig("error", w.obj, h, 0, 0, a.error)>>
                        [] a.type = "torrent_finished" /\ should_notify(w) ->
                             <<Sig("completed", w.obj, h, 0, 0, "")>>
                        [] OTHER -> << >>
         IN /\ torrents' = [torrents EXCEPT ![h] = AfterStatus(w1)]
            /\ emitted' = first \o StatusSignals(w1)
            /\ NextAlert
            /\ UNCHANGED alertExc

\* The save_resume_data branch: the payload is written to <hash>.fastresume,
\* open() and write() taken as one step.
resume_branch(a, h) ==
    /\ resumeFiles' = DictSet(resumeFiles, get_resume_filepath(h), a.resume_data)
    /\ emitted' = << >>
    /\ NextAlert
    /\ UNCHANGED alertExc

AlertBody ==
    /\ alertPc = "body"
    /\ LET a == alerts[alertIdx]
       IN IF a.type \in RegistryAlerts
          THEN registry_branch(a, alertHash) /\ UNCHANGED resumeFiles
          ELSE resume_branch(a, alertHash) /\ UNCHANGED torrents
    /\ alertHash' = 0
    /\ UNCHANGED <<engineVars, nextObj, alerts, statusVars, callerVars, pureVars>>
    /\ UNCHANGED guiVars
    /\ Observe

\* "time.sleep(0.1)", then the next iteration of "while True".
AlertSleep ==
    /\ alertPc = "sleep"
    /\ alertPc' = "poll"
    /\ emitted' = << >>
    /\ UNCHANGED <<torrents, engineVars, resumeFiles, nextObj, alerts, alertIdx,
                   alertHash, alertExc, statusVars, callerVars, pureVars>>
    /\ UNCHANGED guiVars
    /\ Observe

\* ------------------------------------------------ registry and alert loop
Init == InitClient /\ ProbeIdle

Add == \E kind \in {"magnet", "file"}, h \in Hashes, parses \in BOOLEAN,
          completed \in BOOLEAN :
            add_torrent(kind, h, parses, 0, completed)

Remove == \E h \in Hashes : CallRemove(h)

PostAlert == \E type \in {"torrent_finished", "torrent_error"}, h \in Hashes :
                EnginePostAlert(type, h)

AnswerSave == \E handle \in saveRequests, blob \in {0} \cup Blobs :
                EngineAnswerSave(handle, blob)

Next ==
    \/ Add
    \/ Remove
    \/ remove_torrent
    \/ remove_from_session
    \/ remove_resume_file
    \/ remove_del
    \/ PostAlert
    \/ AnswerSave
    \/ AlertPoll
    \/ AlertCheck
    \/ AlertBody
    \/ AlertSleep

Spec == Init /\ [][Next]_vars

\* C1: when the alert loop reaches its sleep after an exception left the
\* batch, no alert that has work to do is left behind the one that raised:
\* every later alert of the batch was processed.
BatchSurvivesException ==
    (alertPc = "sleep" /\ alertExc) =>
        \A j \in (alertIdx + 1)..Len(alerts) : ~branch_taken(alerts[j])

\* C2: for each wrapper the completed signal is emitted at most once; a step
\* that handles a torrent_finished alert for a tracked torrent emits it
\* exactly when the flag was false before, sets the flag, and otherwise emits
\* the status update alone.
FinishedStep ==
    /\ alertPc = "body"
    /\ alertPc' # "body"
    /\ alerts[alertIdx].type = "torrent_finished"
    /\ alertHash \in DOMAIN torrents

CompletedOnce ==
    /\ [](\A o \in DOMAIN completedEmits : completedEmits[o] <= 1)
    /\ [][FinishedStep =>
            LET w == torrents[alertHash]
                completions == Cardinality(Emissions(emitted', "completed"))
                updates == Cardinality(Emissions(emitted', "status_updated"))
            IN /\ torrents'[alertHash].is_completed_flag
               /\ completions = (IF w.is_completed_flag THEN 0 ELSE 1)
               /\ completedEmits'[w.obj] = completedEmits[w.obj] + completions
               /\ updates = (IF is_valid(w.handle) THEN 1 ELSE 0)
               /\ \A i \in 1..Len(emitted') :
                    \/ emitted'[i].sig \in {"completed", "status_updated"}
                    \/ emitted'[i].sig = "error" /\ ~is_valid(w.handle)]_vars

\* A second finished alert of the batch has been handled for a wrapper whose
\* completed signal went out on the first: only a status update was emitted.
CompletedOnceWitness ==
    /\ alertIdx = 3
    /\ alerts[1].type = "torrent_finished"
    /\ alerts[2] = alerts[1]
    /\ alerts[1].handle.hash \in DOMAIN torrents
    /\ completedEmits[torrents[alerts[1].handle.hash].obj] = 1
    /\ Len(emitted) = 1
    /\ emitted[1].sig = "status_updated"

\* C4: an add_torrent that returns a wrapper for hash h leaves the registry
\* with one entry for h, the returned wrapper, and with no other key added
\* or lost: adding a hash that is already tracked does not grow the registry.
AddStep ==
    /\ nextObj' = nextObj + 1
    /\ call'.op = "add_torrent"
    /\ call'.ret = "wrapper"

OneEntryPerHash ==
    [][AddStep =>
        LET h == call'.hash
        IN /\ h \in DOMAIN torrents'
           /\ torrents'[h].obj = call'.obj
           /\ DOMAIN torrents' = DOMAIN torrents \cup {h}
           /\ Cardinality(DOMAIN torrents') =
                Cardinality(DOMAIN torrents) + (IF h \in DOMAIN torrents THEN 0 ELSE 1)
       ]_vars

\* The same hash has been added twice with no remove in between: the engine
\* holds one torrent, two wrappers were created, one entry is registered.
OneEntryWitness ==
    /\ call.op = "add_torrent"
    /\ call.obj = 2
    /\ nextInst = 2
    /\ DOMAIN torrents = {call.hash}
    /\ torrents[call.hash].obj = 2

\* C5: an add_torrent that succeeds (returns a wrapper and emits
\* torrent_added) is for a hash that was not in the registry before the call.
SuccessfulAddIsNew ==
    [][AddStep => call'.hash \notin DOMAIN torrents]_vars

\* C6: once remove_torrent(h) has completed for a tracked hash and h is
\* absent from the registry, the resume directory holds no file for h.
NoResumeFileAfterRemove ==
    (/\ call.op = "remove_torrent"
     /\ call.ret = "done"
     /\ call.hash \notin DOMAIN torrents)
    => get_resume_filepath(call.hash) \notin DOMAIN resumeFiles

\* C7: remove_torrent for a hash that is not in the registry changes neither
\* the registry, the resume files nor the engine, emits no signal and returns
\* normally.
RemoveAbsentStep ==
    /\ callerPc = "remove_check"
    /\ callerPc' # "remove_check"
    /\ call.hash \notin DOMAIN torrents

RemoveAbsentIsNoop ==
    [][RemoveAbsentStep =>
        /\ UNCHANGED <<torrents, resumeFiles, session, saveRequests, alertQueue>>
        /\ emitted' = << >>
        /\ callerPc' = "idle"
        /\ call'.ret = None]_vars

\* A hash was added and removed, and a second remove of it has returned.
RemoveAbsentWitness ==
    /\ call.op = "remove_torrent"
    /\ call.ret = None
    /\ callerPc = "idle"
    /\ nextObj = 2
    /\ nextInst = 2
    /\ torrents = << >>

\* C11: the resume file read for a hash changes only when the alert loop
\* writes a save_resume_data payload for that hash, after which loading the
\* hash returns exactly the payload, or when remove_torrent deletes the file
\* of that hash; a payload saved for one hash is never what loading another
\* hash returns.
SaveResumeStep ==
    /\ alertPc = "body"
    /\ alertPc' # "body"
    /\ alerts[alertIdx].type = "save_resume_data"

ResumeFileWritten(path) ==
    /\ path \in DOMAIN resumeFiles'
    /\ path \in DOMAIN resumeFiles => resumeFiles'[path] # resumeFiles[path]

OnlyAlertLoopWritesResume ==
    [][\A h \in Hashes :
        ResumeFileWritten(get_resume_filepath(h)) =>
            /\ alertPc = "body"
            /\ alertPc' # "body"
            /\ alerts[alertIdx].type = "save_resume_data"
            /\ alerts[alertIdx].resume_data # 0
            /\ alerts[alertIdx].handle.hash = h
            /\ resumeFiles'[get_resume_filepath(h)] = alerts[alertIdx].resume_data]_vars

\* The alert loop has written the payload of the first alert of its batch, a
\* save_resume_data alert, to the file of the alert's hash.
OnlyAlertLoopWitness ==
    /\ Len(alerts) >= 1
    /\ alertIdx > 1
    /\ alerts[1].type = "save_resume_data"
    /\ load_resume_data(resumeFiles, alerts[1].handle.hash) = alerts[1].resume_data

\* C25: the steps of the alert loop on a save_resume_data_failed alert leave
\* every wrapper of the registry and every resume file as they were and emit
\* no signal.
FailedSaveAlertStep ==
    /\ alertPc \in {"check", "body"}
    /\ alerts[alertIdx].type = "save_resume_data_failed"
    /\ (alertPc' # alertPc \/ alertIdx' # alertIdx)

FailedSaveChangesNothing ==
    [][FailedSaveAlertStep =>
        /\ torrents' = torrents
        /\ resumeFiles' = resumeFiles
        /\ emitted' = << >>
        /\ alertPc' # "body"]_vars

\* The alert loop has gone past a save_resume_data_failed alert about a
\* tracked torrent that has a resume file.
FailedSaveWitness ==
    /\ alertIdx > 1
    /\ Len(alerts) >= 1
    /\ alerts[1].type = "save_resume_data_failed"
    /\ alerts[1].handle.hash \in DOMAIN torrents
    /\ get_resume_filepath(alerts[1].handle.hash) \in DOMAIN resumeFiles

\* ------------------------------------------------------ TorrentHandle.pause
\* MainWindow.pause_torrent: "if info_hash in self.torrent_client.torrents:
\* self.torrent_client.torrents[info_hash].pause()".
CallPause(h) ==
    /\ callerPc = "idle"
    /\ h \in DOMAIN torrents
    /\ call' = Call("pause", h, << >>, "running", torrents[h].obj)
    /\ callerPc' = "pause_handle"
    /\ emitted' = << >>
    /\ UNCHANGED <<torrents, engineVars, resumeFiles, nextObj, alertVars,
                   statusVars, pureVars>>
    /\ UNCHANGED guiVars
    /\ Observe

\* "except Exception as e:" of pause: last_error is set and the wrapper's
\* error signal emitted; pause returns normally.
pause_raises ==
    /\ torrents' = [torrents EXCEPT ![call.hash].last_error = "invalid torrent handle"]
    /\ emitted' = <<Sig("error", call.obj, call.hash, 0, 0, "invalid torrent handle")>>
    /\ call' = [call EXCEPT !.ret = "error"]
    /\ callerPc' = "idle"
    /\ UNCHANGED session

\* "self.handle.pause()"
pause_handle ==
    /\ callerPc = "pause_handle"
    /\ LET w == torrents[call.hash]
       IN IF is_valid(w.handle)
          THEN /\ session' = [session EXCEPT ![call.hash].paused = TRUE]
               /\ callerPc' = "pause_auto"
               /\ emitted' = << >>
               /\ UNCHANGED <<torrents, call>>
          ELSE pause_raises
    /\ UNCHANGED <<settings, alertQueue, saveRequests, nextInst, posted,
                   resumeFiles, nextObj, alertVars, statusVars, pureVars>>
    /\ UNCHANGED guiVars
    /\ Observe

\* "self.handle.auto_managed(False)"
pause_auto_managed ==
    /\ callerPc = "pause_auto"
    /\ LET w == torrents[call.hash]
       IN IF is_valid(w.handle)
          THEN /\ session' = [session EXCEPT ![call.hash].auto_managed = FALSE]
               /\ callerPc' = "pause_status"
               /\ emitted' = << >>
               /\ UNCHANGED <<torrents, call>>
          ELSE pause_raises
    /\ UNCHANGED <<settings, alertQueue, saveRequests, nextInst, posted,
                   resumeFiles, nextObj, alertVars, statusVars, pureVars>>
    /\ UNCHANGED guiVars
    /\ Observe

\* "status['download_rate'] = 0; status['upload_rate'] = 0"
force_zero(sig) == [sig EXCEPT !.dl = 0, !.ul = 0]

\* "status = self.get_status(); if status: ...; self.status_updated.emit(status)"
pause_status ==
    /\ callerPc = "pause_status"
    /\ LET w == torrents[call.hash]
           sigs == StatusSignals(w)
       IN /\ emitted' = [i \in 1..Len(sigs) |->
                            IF sigs[i].sig = "status_updated"
                            THEN force_zero(sigs[i]) ELSE sigs[i]]
          /\ torrents' = [torrents EXCEPT ![call.hash] = AfterStatus(w)]
    /\ call' = [call EXCEPT !.ret = "done"]
    /\ callerPc' = "idle"
    /\ UNCHANGED <<engineVars, resumeFiles, nextObj, alertVars, statusVars,
                   pureVars>>
    /\ UNCHANGED guiVars
    /\ Observe

\* ---------------------------------------------- TorrentClient._update_status
\* The keys of a dict as the sequence its iterator yields.
RECURSIVE KeySeq(_)
KeySeq(keys) ==
    IF keys = {} THEN << >>
    ELSE LET k == CHOOSE x \in keys : \A y \in keys : x <= y
         IN <<k>> \o KeySeq(keys \ {k})

\* "for torrent in self.torrents.values():" creates the iterator.
StatusTick ==
    /\ statusPc = "tick"
    /\ statusTodo' = [keys |-> KeySeq(DOMAIN torrents),
                      used |-> Cardinality(DOMAIN torrents),
                      seen |-> DOMAIN torrents]
    /\ statusRead' = << >>
    /\ statusPc' = "read"
    /\ emitted' = << >>
    /\ UNCHANGED <<torrents, engineVars, resumeFiles, nextObj, alertVars,
                   callerVars, pureVars>>
    /\ UNCHANGED guiVars
    /\ Observe

\* The entries the iterator still has before it: those of the keys that
\* were in the dict when it was created, without the ones deleted since.
RECURSIVE DropDeleted(_)
DropDeleted(keys) ==
    IF keys = << >> THEN << >>
    ELSE IF Head(keys) \in DOMAIN torrents
         THEN <<Head(keys)>> \o DropDeleted(Tail(keys))
         ELSE DropDeleted(Tail(keys))

\* The iterator's next(): RuntimeError when the dict changed size since the
\* iterator was created; otherwise the value of the next entry, entries
\* inserted since coming after the older ones. Then the first line of
\* get_status, "status = self.handle.status()".
StatusRead ==
    /\ statusPc = "read"
    /\ LET older == DropDeleted(statusTodo.keys)
           newer == DOMAIN torrents \ statusTodo.seen
       IN
       IF Cardinality(DOMAIN torrents) # statusTodo.used
       THEN /\ statusPc' = "sleep"
            /\ statusRead' = << >>
            /\ emitted' = << >>
            /\ UNCHANGED <<statusTodo, torrents>>
       ELSE IF older = << >> /\ newer = {}
       THEN /\ statusPc' = "aggregate"
            /\ statusRead' = << >>
            /\ emitted' = << >>
            /\ UNCHANGED <<statusTodo, torrents>>
       ELSE \E h \in (IF older # << >> THEN {Head(older)} ELSE newer) :
            LET w == torrents[h]
            IN /\ statusTodo' =
                    [statusTodo EXCEPT
                        !.keys = IF older # << >> THEN Tail(older) ELSE << >>,
                        !.seen = @ \cup {h}]
               /\ IF is_valid(w.handle)
                  THEN /\ statusRead' = <<[obj |-> w.obj, hash |-> h,
                                            s |-> status(w.handle),
                                            last_error |-> w.last_error]>>
                       /\ statusPc' = "emit"
                       /\ emitted' = << >>
                       /\ UNCHANGED torrents
                  ELSE /\ statusRead' = << >>
                       /\ statusPc' = "read"
                       /\ emitted' = StatusSignals(w)
                       /\ torrents' = [torrents EXCEPT ![h] = AfterStatus(w)]
    /\ UNCHANGED <<engineVars, resumeFiles, nextObj, alertVars, callerVars,
                   pureVars>>
    /\ UNCHANGED guiVars
    /\ Observe

\* The rest of get_status on the struct it read, and
\* "if status: torrent.status_updated.emit(status)".
StatusEmit ==
    /\ statusPc = "emit"
    /\ LET r == statusRead[1]
           d == status_dict(r.s, r.last_error)
       IN emitted' = <<Sig("status_updated", r.obj, r.hash,
                           d.download_rate, d.upload_rate, "")>>
    /\ statusRead' = << >>
    /\ statusPc' = "read"
    /\ UNCHANGED <<torrents, engineVars, resumeFiles, nextObj, alertVars,
                   statusTodo, callerVars, pureVars>>
    /\ UNCHANGED guiVars
    /\ Observe

RECURSIVE SumOver(_, _)
SumOver(keys, f) ==
    IF keys = {} THEN 0
    ELSE LET k == CHOOSE x \in keys : TRUE
         IN f[k] + SumOver(keys \ {k}, f)

Unscaled(rate) == rate

\* "download_rate / 1024", "upload_rate / 1024" of the aggregate.
to_kib(rate) == rate \div Kib

\* The two sums over t.handle.status() and client_status_updated.emit; a
\* handle whose status() raises ends the try block without the emission.
StatusAggregate ==
    /\ statusPc = "aggregate"
    /\ IF \A h \in DOMAIN torrents : is_valid(torrents[h].handle)
       THEN LET dl == SumOver(DOMAIN torrents,
                        [h \in DOMAIN torrents |-> status(torrents[h].handle).download_rate])
                ul == SumOver(DOMAIN torrents,
                        [h \in DOMAIN torrents |-> status(torrents[h].handle).upload_rate])
            IN emitted' = <<AggregateSig(Cardinality(DOMAIN torrents),
                                         to_kib(dl), to_kib(ul))>>
       ELSE emitted' = << >>
    /\ statusPc' = "sleep"
    /\ UNCHANGED <<torrents, engineVars, resumeFiles, nextObj, alertVars,
                   statusTodo, statusRead, callerVars, pureVars>>
    /\ UNCHANGED guiVars
    /\ Observe

\* "time.sleep(1)", then the next iteration of "while True".
StatusSleep ==
    /\ statusPc = "sleep"
    /\ statusPc' = "tick"
    /\ emitted' = << >>
    /\ UNCHANGED <<torrents, engineVars, resumeFiles, nextObj, alertVars,
                   statusTodo, statusRead, callerVars, pureVars>>
    /\ UNCHANGED guiVars
    /\ Observe

\* The engine's transfer rate of a running torrent changes.
EngineSetRate(h, r) ==
    /\ h \in DOMAIN session
    /\ ~session[h].paused
    /\ session[h].download_rate # r
    /\ session' = [session EXCEPT ![h].download_rate = r]
    /\ emitted' = << >>
    /\ UNCHANGED <<torrents, settings, alertQueue, saveRequests, nextInst,
                   posted, resumeFiles, nextObj, alertVars, statusVars,
                   callerVars, pureVars>>
    /\ UNCHANGED guiVars
    /\ Observe

\* The engine's auto-manager starts a paused torrent it still manages.
EngineAutoResume(h) ==
    /\ h \in DOMAIN session
    /\ session[h].paused
    /\ session[h].auto_managed
    /\ session' = [session EXCEPT ![h].paused = FALSE]
    /\ emitted' = << >>
    /\ UNCHANGED <<torrents, settings, alertQueue, saveRequests, nextInst,
                   posted, resumeFiles, nextObj, alertVars, statusVars,
                   callerVars, pureVars>>
    /\ UNCHANGED guiVars
    /\ Observe

\* ------------------------------------------------- pause and the status loop
AddMagnet == \E h \in Hashes : add_torrent("magnet", h, TRUE, 0, FALSE)

Pause == \E h \in Hashes : CallPause(h)

SetRate == \E h \in Hashes, r \in Rates : EngineSetRate(h, r)

AutoResume == \E h \in Hashes : EngineAutoResume(h)

NextPause ==
    \/ AddMagnet
    \/ Pause
    \/ pause_handle
    \/ pause_auto_managed
    \/ pause_status
    \/ StatusTick
    \/ StatusRead
    \/ StatusEmit
    \/ StatusAggregate
    \/ StatusSleep
    \/ SetRate
    \/ AutoResume

SpecPause == Init /\ [][NextPause]_vars

\* C8: the first status_updated emitted for a torrent after pause() has
\* paused its handle carries download rate 0 and upload rate 0, whichever
\* thread emits it.
FirstSnapshotAfterPauseIsZero ==
    [][\A i \in 1..Len(emitted') :
        (emitted'[i].sig = "status_updated" /\ emitted'[i].hash \in awaitSnap)
        => (emitted'[i].dl = 0 /\ emitted'[i].ul = 0)]_vars

\* C30: the client_status_updated a status tick emits carries the number of
\* entries of the registry and, in KiB/s, the sums of the download rates and
\* of the upload rates the engine reports for the tracked torrents.
AggregateEmitted ==
    /\ statusPc = "aggregate"
    /\ statusPc' = "sleep"
    /\ emitted' # << >>

snapshot_rates(h) ==
    LET d == status_dict(status(torrents[h].handle), torrents[h].last_error)
    IN [download_rate |-> d.download_rate, upload_rate |-> d.upload_rate]

\* C39: the rates of the client_status_updated a status tick emits are the
\* sums of the rates of the status_dict of every tracked torrent, a paused
\* torrent counting with the 0 its status_dict carries; the two are compared
\* on one reading of the engine, at the step that emits the aggregate.
AggregateIsSumOfSnapshots ==
    [][AggregateEmitted =>
        /\ emitted'[1].dl =
            SumOver(DOMAIN torrents,
                    [h \in DOMAIN torrents |-> snapshot_rates(h).download_rate])
        /\ emitted'[1].ul =
            SumOver(DOMAIN torrents,
                    [h \in DOMAIN torrents |-> snapshot_rates(h).upload_rate])]_vars

\* C27: once pause() has returned without error for a torrent, the engine
\* holds it paused and not auto-managed, however the engine's auto-manager
\* was interleaved with handle.pause() and handle.auto_managed(False).
PausedAfterPause ==
    (/\ call.op = "pause"
     /\ call.ret = "done"
     /\ callerPc = "idle"
     /\ is_valid(torrents[call.hash].handle))
    => (/\ session[call.hash].paused
        /\ ~session[call.hash].auto_managed)

\* ------------------------------------------------------------- settings
\* Setting names: 1..MaxKeys are names the engine accepts, 0 is a name it
\* rejects. A settings dict is a sequence of <<name, value>> pairs in the
\* dict's iteration order, no name twice.
SettingNames == 0..MaxKeys
SettingValues == {1, 2}
Rejected(k) == k \notin 1..MaxKeys

RECURSIVE Dicts(_)
Dicts(n) ==
    IF n = 0 THEN {<< >>}
    ELSE LET shorter == Dicts(n - 1)
         IN shorter \cup
            {Append(d, <<k, v>>) :
                d \in {x \in shorter : Len(x) = n - 1},
                k \in SettingNames, v \in SettingValues}

SettingsDicts ==
    {d \in Dicts(MaxKeys + 1) :
        \A i, j \in 1..Len(d) : i # j => d[i][1] # d[j][1]}

\* The engine's pack after the first n pairs of d have been applied to pack.
RECURSIVE Applied(_, _, _)
Applied(pack, d, n) ==
    IF n = 0 THEN pack
    ELSE LET before == Applied(pack, d, n - 1)
         IN [before EXCEPT ![d[n][1]] = d[n][2]]

FirstRejected(d) ==
    IF \E i \in 1..Len(d) : Rejected(d[i][1])
    THEN CHOOSE i \in 1..Len(d) :
            /\ Rejected(d[i][1])
            /\ \A j \in 1..(i - 1) : ~Rejected(d[j][1])
    ELSE 0

\* session.apply_settings(d): the outcomes of the engine call, as
\* [raised, pack]. A dict without a rejected name is applied whole. A dict
\* with one makes the call raise, either before anything was applied or at
\* the rejected name, with the names before it applied.
engine_apply_settings(pack, d) ==
    IF FirstRejected(d) = 0
    THEN {[raised |-> FALSE, pack |-> Applied(pack, d, Len(d))]}
    ELSE {[raised |-> TRUE, pack |-> pack],
          [raised |-> TRUE, pack |-> Applied(pack, d, FirstRejected(d) - 1)]}

\* TorrentClient.apply_session_settings(settings_dict_str_keys): one engine
\* call for the whole dict inside one try; the except clause logs and emits
\* the client's error signal.
apply_session_settings(d) ==
    /\ callerPc = "idle"
    /\ \E out \in engine_apply_settings(settings, d) :
        /\ settings' = out.pack
        /\ emitted' = IF out.raised
                      THEN <<Sig("client_error", 0, 0, 0, 0,
                                 "Error applying session settings")>>
                      ELSE << >>
    /\ call' = Call("apply_session_settings", 0, d, None, 0)
    /\ UNCHANGED <<torrents, session, alertQueue, saveRequests, nextInst,
                   posted, resumeFiles, nextObj, alertVars, statusVars,
                   callerPc, completedEmits, awaitSnap, pureVars, guiVars>>

\* The pack with every pair of the dict last passed to
\* apply_session_settings written over it.
RequestedView ==
    LET d == call.arg
        names == {d[i][1] : i \in 1..Len(d)}
    IN [k \in DOMAIN settings \cup names |->
            IF k \in names
            THEN d[CHOOSE i \in 1..Len(d) : d[i][1] = k][2]
            ELSE settings[k]]

\* TorrentClient.get_session_settings(): the engine's pack, read live.
get_session_settings == settings

InitSettings == InitClient /\ ProbeIdle

ApplySettings == \E d \in SettingsDicts : apply_session_settings(d)

NextSettings == ApplySettings

SpecSettings == InitSettings /\ [][NextSettings]_vars

\* C3: after apply_session_settings(d) for a dict d holding exactly one name
\* the engine rejects, every accepted name of d has its requested value in
\* the engine's settings, as get_session_settings returns them, wherever the
\* rejected name stands in d.
PartialSettingsApplied ==
    LET d == call.arg
    IN (/\ call.op = "apply_session_settings"
        /\ Cardinality({i \in 1..Len(d) : Rejected(d[i][1])}) = 1)
       => \A i \in 1..Len(d) :
            ~Rejected(d[i][1]) => get_session_settings[d[i][1]] = d[i][2]

EtaFormula ==
    snap # << >> =>
        LET s == probe.s
            total == snap[1].total_size
            rate == s.download_payload_rate
            done == s.total_done
        IN /\ (rate = 0 \/ done >= total) => snap[1].eta.inf
           /\ ~(rate = 0 \/ done >= total) =>
                /\ ~snap[1].eta.inf
                /\ snap[1].eta.den > 0
                /\ snap[1].eta.num >= 0
                /\ snap[1].eta.num * rate = (total - done) * snap[1].eta.den
           /\ (~s.handle_has_metadata /\ ~s.has_metadata) =>
                (total = 0 /\ snap[1].eta.inf)

EtaWitnessFinite ==
    /\ snap # << >>
    /\ ~snap[1].eta.inf
    /\ snap[1].eta.num = 2
    /\ probe.s.total_done = 0

\* C10: in every status_dict, ratio is 0 when the downloaded payload is 0,
\* whatever was uploaded, and is uploaded / downloaded when it is positive.
RatioFormula ==
    snap # << >> =>
        LET up == probe.s.total_payload_upload
            down == probe.s.total_payload_download
        IN /\ down = 0 => snap[1].ratio.num = 0
           /\ down > 0 =>
                /\ snap[1].ratio.den > 0
                /\ snap[1].ratio.num * down = up * snap[1].ratio.den

RatioWitnessZeroDownload ==
    /\ snap # << >>
    /\ probe.s.total_payload_download = 0
    /\ probe.s.total_payload_upload > 0
    /\ snap[1].ratio.num = 0

\* C29: the state of a status_dict follows the precedence error, no
\* metadata, paused, engine state: with an error recorded in the wrapper it
\* is neither "paused" nor the engine's state, and without an error and
\* without metadata it is not "paused".
StatePrecedence ==
    snap # << >> =>
        LET s == probe.s
            no_metadata == ~s.handle_has_metadata /\ ~s.has_metadata
        IN /\ probe.last_error # None =>
                snap[1].state \notin {"paused", s.state}
           /\ (probe.last_error = None /\ no_metadata) =>
                snap[1].state # "paused"

\* ------------------------------------------- add_torrent and metadata alerts
\* The engine obtains the metadata of a torrent added from a magnet link and
\* posts a metadata_received_alert.
EngineReceiveMetadata(h) ==
    /\ posted < MaxAlerts
    /\ h \in DOMAIN session
    /\ ~session[h].has_metadata
    /\ session' = [session EXCEPT ![h].has_metadata = TRUE,
                                  ![h].handle_has_metadata = TRUE]
    /\ alertQueue' = Append(alertQueue,
                            Alert("metadata_received",
                                  [hash |-> h, inst |-> session[h].inst], "", 0))
    /\ posted' = posted + 1
    /\ emitted' = << >>
    /\ UNCHANGED <<torrents, settings, saveRequests, nextInst, resumeFiles,
                   nextObj, alertVars, statusVars, callerVars, pureVars>>
    /\ UNCHANGED guiVars
    /\ Observe

AddAny == \E kind \in {"magnet", "file"}, h \in Hashes, parses \in BOOLEAN,
             resume \in {0} \cup Blobs, completed \in BOOLEAN :
                add_torrent(kind, h, parses, resume, completed)

ReceiveMetadata == \E h \in Hashes : EngineReceiveMetadata(h)

NextAdd ==
    \/ AddAny
    \/ ReceiveMetadata
    \/ AlertPoll
    \/ AlertCheck
    \/ AlertBody
    \/ AlertSleep

SpecAdd == Init /\ [][NextAdd]_vars

\* C12: an add_torrent that fails (returns None, having emitted the client's
\* error signal) leaves the registry as it was before the call and emits no
\* torrent_added, whichever step failed.
FailedAddStep ==
    /\ call'.op = "add_torrent"
    /\ call'.ret = None
    /\ \E i \in 1..Len(emitted') : emitted'[i].sig = "client_error"

FailedAddLeavesRegistry ==
    [][FailedAddStep =>
        /\ torrents' = torrents
        /\ \A i \in 1..Len(emitted') : emitted'[i].sig # "torrent_added"]_vars

\* C14: an add_torrent that obtained a valid handle registers the wrapper;
\* when it succeeds, the engine has been asked for exactly one recheck of the
\* torrent if the source is file-backed and came with resume data or the
\* completed hint, and for none otherwise; the request comes after the
\* registration and before the torrent_added emission, so an add_torrent
\* that fails at the request has registered the wrapper and emitted no
\* torrent_added.
RecheckAtAdd ==
    [][(nextObj' = nextObj + 1 /\ call'.op = "add_torrent") =>
        LET h == call'.hash
            kind == call'.arg[1]
            resume == call'.arg[2]
            completed == call'.arg[3]
            before == IF h \in DOMAIN session THEN session[h].rechecks ELSE 0
            due == kind = "file" /\ (resume # 0 \/ completed)
            announced == \E i \in 1..Len(emitted') :
                            emitted'[i].sig = "torrent_added"
        IN /\ h \in DOMAIN torrents'
           /\ torrents'[h].obj = nextObj
           /\ call'.ret = "wrapper" =>
                /\ session'[h].rechecks = before + (IF due THEN 1 ELSE 0)
                /\ announced
           /\ call'.ret # "wrapper" =>
                /\ due
                /\ session'[h].rechecks = before
                /\ ~announced]_vars

\* A file-backed source with resume data and without the completed hint has
\* been added: the engine was asked for one recheck.
RecheckAtAddWitness ==
    /\ call.op = "add_torrent"
    /\ call.ret = "wrapper"
    /\ call.arg = <<"file", 1, FALSE>>
    /\ session[call.hash].rechecks = 1
    /\ nextObj = 2

\* C15: the step of the alert loop that handles the metadata_received alert
\* of a tracked magnet carrying the completed flag asks the engine for a
\* recheck of the torrent.
MetadataHandledStep ==
    /\ alertPc = "body"
    /\ alertPc' # "body"
    /\ alerts[alertIdx].type = "metadata_received"
    /\ alertHash \in DOMAIN torrents
    /\ torrents[alertHash].source = "magnet"
    /\ torrents[alertHash].is_completed_flag

DeferredRecheckIssued ==
    [][MetadataHandledStep =>
        session'[alertHash].rechecks > session[alertHash].rechecks]_vars

\* C22: the engine torrent created by an add_torrent for a magnet source has
\* received no resume data, no seed_mode flag and no upload_mode flag,
\* whatever resume_data_bytes and is_completed_on_load the caller passed.
MagnetAddedStep ==
    /\ AddStep
    /\ call'.arg[1] = "magnet"
    /\ call'.hash \notin DOMAIN session

MagnetAddCarriesNothing ==
    [][MagnetAddedStep =>
        /\ session'[call'.hash].resume_data = 0
        /\ ~session'[call'.hash].seed_mode
        /\ ~session'[call'.hash].upload_mode]_vars

\* A magnet was added with resume data and the completed hint, and the
\* engine's torrent holds neither resume data nor seed_mode.
MagnetAddWitness ==
    /\ call.op = "add_torrent"
    /\ call.ret = "wrapper"
    /\ call.arg = <<"magnet", 1, TRUE>>
    /\ nextInst = 2
    /\ call.hash \in DOMAIN session
    /\ session[call.hash].resume_data = 0
    /\ ~session[call.hash].seed_mode

\* C28: the is_completed_flag of the wrapper registered under a hash does
\* not go from TRUE to FALSE while the hash stays in the registry, whatever
\* add_torrent calls and alerts follow.
CompletedFlagMonotonic ==
    [][\A h \in DOMAIN torrents \cap DOMAIN torrents' :
        torrents[h].is_completed_flag => torrents'[h].is_completed_flag]_vars

\* The assignments to params the .torrent branch of add_torrent makes before
\* session.add_torrent(params), in program order: with the completed hint and
\* resume data, "params.resume_data = resume_data_bytes" and then
\* "params.flags |= seed_mode"; with resume data alone, the first only.
param_writes(resume, completed) ==
    IF completed /\ resume # 0
    THEN <<[field |-> "resume_data", value |-> resume],
           [field |-> "seed_mode", value |-> 1]>>
    ELSE IF resume # 0
         THEN <<[field |-> "resume_data", value |-> resume]>>
         ELSE << >>

\* The value params holds in a field after the writes ws: that of the last
\* write to the field, 0 when there is none.
Written(ws, field) ==
    LET at == {i \in 1..Len(ws) : ws[i].field = field}
    IN IF at = {} THEN 0
       ELSE ws[CHOOSE i \in at : \A j \in at : j <= i].value

\* C32: the engine torrent created by an add_torrent for a .torrent file holds
\* what the branch wrote into params; it has seed_mode only when the same
\* params carry the resume data the caller passed, the resume data having
\* been written before the flag; with the completed hint and no resume data
\* it has no seed_mode.
FileAddedStep ==
    /\ AddStep
    /\ call'.arg[1] = "file"
    /\ call'.hash \notin DOMAIN session

SeedModeOnlyWithResume ==
    [][FileAddedStep =>
        LET t == session'[call'.hash]
            resume == call'.arg[2]
            completed == call'.arg[3]
            ws == param_writes(resume, completed)
        IN /\ t.resume_data = Written(ws, "resume_data")
           /\ t.seed_mode = (Written(ws, "seed_mode") = 1)
           /\ t.seed_mode =>
                /\ resume # 0
                /\ t.resume_data = resume
                /\ \E i, j \in 1..Len(ws) :
                      /\ i < j
                      /\ ws[i].field = "resume_data"
                      /\ ws[j].field = "seed_mode"
           /\ (completed /\ resume = 0) => ~t.seed_mode]_vars

\* A .torrent file was added with the completed hint and without resume
\* data: the engine's torrent has no seed_mode.
SeedModeWitnessHintAlone ==
    /\ call.op = "add_torrent"
    /\ call.ret = "wrapper"
    /\ call.arg = <<"file", 0, TRUE>>
    /\ nextInst = 2
    /\ call.hash \in DOMAIN session
    /\ ~session[call.hash].seed_mode
    /\ session[call.hash].resume_data = 0

\* ---------------------------------------- the status loop beside add, remove
NextTick ==
    \/ AddMagnet
    \/ Remove
    \/ remove_torrent
    \/ remove_from_session
    \/ remove_resume_file
    \/ remove_del
    \/ StatusTick
    \/ StatusRead
    \/ StatusEmit
    \/ StatusAggregate
    \/ StatusSleep

SpecTick == Init /\ [][NextTick]_vars

\* C13: no entry is inserted into or deleted from the registry while the
\* status loop is inside its iteration over the registry or the alert loop is
\* between the membership test and the lookups of an alert's branch.
RegistryAccessExclusive ==
    [][DOMAIN torrents' # DOMAIN torrents =>
        /\ statusPc \notin {"read", "emit"}
        /\ alertPc # "body"]_vars

\* C19: a tick of the status loop that has gone through the per-torrent
\* snapshots emits the aggregate snapshot, also when the handle of a tracked
\* torrent fails to answer.
AggregateSurvivesFaultyHandle ==
    [][(statusPc = "aggregate" /\ statusPc' = "sleep") =>
        \E i \in 1..Len(emitted') : emitted'[i].sig = "client_status_updated"]_vars

\* ------------------------------------- TorrentClient.set_torrent_file_priority
\* The engine stops holding a torrent: every handle to it becomes invalid.
EngineDrop(h) ==
    /\ h \in DOMAIN session
    /\ session' = DictDel(session, h)
    /\ emitted' = << >>
    /\ UNCHANGED <<torrents, settings, alertQueue, saveRequests, nextInst,
                   posted, resumeFiles, nextObj, alertVars, statusVars,
                   callerVars, pureVars>>
    /\ UNCHANGED guiVars
    /\ Observe

\* MainWindow.on_file_priority_changed calls
\* set_torrent_file_priority(info_hash, file_index, priority_level).
CallSetPriority(h, file_index, priority_level) ==
    /\ callerPc = "idle"
    /\ call' = Call("set_file_priority", h, <<file_index, priority_level>>,
                    "running", 0)
    /\ callerPc' = "set_priority"
    /\ emitted' = << >>
    /\ UNCHANGED <<torrents, engineVars, resumeFiles, nextObj, alertVars,
                   statusVars, pureVars>>
    /\ UNCHANGED guiVars
    /\ Observe

IndexNotNegative(file_index, num_files) == file_index >= 0

\* The negation of "file_index < 0 or file_index >= torrent_info.num_files()".
index_in_range(file_index, num_files) ==
    ~(file_index < 0 \/ file_index >= num_files)

\* set_torrent_file_priority, and TorrentHandle.set_file_priority for a
\* tracked hash. An unknown hash: the client's error signal and False. An
\* invalid handle: self.handle.name() inside the warning's f-string either
\* raises, and the exception leaves both functions, or returns and the
\* wrapper's error signal is emitted with False returned. No metadata, or an
\* index out of range: the wrapper's error signal and False. Otherwise
\* handle.file_priority(file_index, priority_level) and True; no path assigns
\* last_error.
set_torrent_file_priority ==
    /\ callerPc = "set_priority"
    /\ LET h == call.hash
           file_index == call.arg[1]
           priority_level == call.arg[2]
       IN
       IF h \notin DOMAIN torrents
       THEN /\ emitted' = <<Sig("client_error", 0, 0, 0, 0,
                                "Cannot set file priority: Torrent not found")>>
            /\ call' = [call EXCEPT !.ret = "False"]
            /\ UNCHANGED session
       ELSE LET w == torrents[h]
            IN
            IF ~is_valid(w.handle)
            THEN \E name_raises \in BOOLEAN :
                 /\ emitted' =
                        IF name_raises THEN << >>
                        ELSE <<Sig("error", w.obj, h, 0, 0,
                                   "Cannot set file priority: No metadata or invalid handle")>>
                 /\ call' = [call EXCEPT
                                !.ret = IF name_raises THEN "raised" ELSE "False",
                                !.obj = w.obj]
                 /\ UNCHANGED session
            ELSE IF ~status(w.handle).handle_has_metadata
            THEN /\ emitted' = <<Sig("error", w.obj, h, 0, 0,
                                     "Cannot set file priority: No metadata or invalid handle")>>
                 /\ call' = [call EXCEPT !.ret = "False", !.obj = w.obj]
                 /\ UNCHANGED session
            ELSE IF ~index_in_range(file_index, status(w.handle).num_files)
            THEN /\ emitted' = <<Sig("error", w.obj, h, 0, 0,
                                     "Cannot set file priority: Invalid file index")>>
                 /\ call' = [call EXCEPT !.ret = "False", !.obj = w.obj]
                 /\ UNCHANGED session
            ELSE /\ session' = [session EXCEPT
                                  ![h].file_priorities[file_index] = priority_level]
                 /\ emitted' = << >>
                 /\ call' = [call EXCEPT !.ret = "True", !.obj = w.obj]
    /\ callerPc' = "idle"
    /\ UNCHANGED <<torrents, settings, alertQueue, saveRequests, nextInst,
                   posted, resumeFiles, nextObj, alertVars, statusVars, pureVars>>
    /\ UNCHANGED guiVars
    /\ Observe

AddPlain == \E kind \in {"magnet", "file"}, h \in Hashes :
                add_torrent(kind, h, TRUE, 0, FALSE)

Drop == \E h \in Hashes : EngineDrop(h)

SetPriority == \E h \in Hashes, file_index \in (0 - 1)..MaxFiles,
                  priority_level \in {NormalPriority, MaximalPriority} :
                    CallSetPriority(h, file_index, priority_level)

NextPriority ==
    \/ AddPlain
    \/ ReceiveMetadata
    \/ Drop
    \/ SetPriority
    \/ set_torrent_file_priority
    \/ Pause
    \/ pause_handle
    \/ pause_auto_managed
    \/ pause_status
    \/ Remove
    \/ remove_torrent
    \/ remove_from_session
    \/ remove_resume_file
    \/ remove_del

SpecPriority == Init /\ [][NextPriority]_vars

\* C16: a set_torrent_file_priority(H, i, level) for an unknown H, an invalid
\* handle, a torrent without metadata, or an index i < 0 or i >= the number
\* of files leaves the engine's torrents, file priorities included, as they
\* were and does not return True (it returns False or raises); so a file
\* priority changes only when none of the four holds.
PriorityRejected ==
    LET h == call.hash
        i == call.arg[1]
    IN \/ h \notin DOMAIN torrents
       \/ ~is_valid(torrents[h].handle)
       \/ ~session[h].handle_has_metadata
       \/ i < 0
       \/ i >= session[h].num_files

RejectedPriorityChangesNothing ==
    [][(callerPc = "set_priority" /\ callerPc' = "idle" /\ PriorityRejected) =>
        /\ session' = session
        /\ call'.ret \in {"False", "raised"}]_vars

\* A call for index MaxFiles of a tracked torrent with metadata has returned
\* False and the torrent's priorities are the defaults.
RejectedPriorityWitness ==
    /\ callerPc = "idle"
    /\ call.op = "set_file_priority"
    /\ call.ret = "False"
    /\ call.arg = <<MaxFiles, MaximalPriority>>
    /\ call.hash \in DOMAIN torrents
    /\ is_valid(torrents[call.hash].handle)
    /\ session[call.hash].handle_has_metadata
    /\ \A i \in 0..(MaxFiles - 1) :
            session[call.hash].file_priorities[i] = NormalPriority

\* C17: a pause, set_file_priority or remove_torrent step that meets an
\* invalid handle in the registry does not raise to its caller, emits an
\* error signal, and leaves the failure message in the wrapper's last_error.
MeetsInvalidHandle ==
    /\ callerPc \in {"pause_handle", "pause_auto", "set_priority",
                     "remove_session"}
    /\ callerPc' = "idle"
    /\ call.hash \in DOMAIN torrents
    /\ ~is_valid(torrents[call.hash].handle)

InvalidHandleFailureReported ==
    [][MeetsInvalidHandle =>
        /\ call'.ret # "raised"
        /\ \E i \in 1..Len(emitted') : emitted'[i].sig \in {"error", "client_error"}
        /\ call.hash \in DOMAIN torrents'
        /\ torrents'[call.hash].last_error # None]_vars

\* The rejection causes the message of a set_file_priority error signal
\* names: the message emitted for "not self.handle.is_valid() or not
\* self.handle.has_metadata()" names both, the message of the index test
\* names the file index.
causes_named(msg) ==
    IF msg = "Cannot set file priority: No metadata or invalid handle"
    THEN {"NoMetadata", "HandleInvalid"}
    ELSE IF msg = "Cannot set file priority: Invalid file index"
    THEN {"InvalidFileIndex"}
    ELSE {}

\* The reason set_file_priority rejects the running call for a tracked hash,
\* None when it rejects nothing.
RejectionCause ==
    LET w == torrents[call.hash]
    IN IF ~is_valid(w.handle) THEN "HandleInvalid"
       ELSE IF ~status(w.handle).handle_has_metadata THEN "NoMetadata"
       ELSE IF ~index_in_range(call.arg[1], status(w.handle).num_files)
            THEN "InvalidFileIndex"
            ELSE None

\* C33: a set_file_priority that returns False for a tracked hash has
\* emitted an error whose message names the one cause of the rejection, an
\* out-of-range file index, missing metadata or an invalid handle, so that
\* the three outcomes differ from each other.
RejectionCausesDistinct ==
    [][(/\ callerPc = "set_priority"
        /\ callerPc' = "idle"
        /\ call.hash \in DOMAIN torrents
        /\ call'.ret = "False") =>
            \E i \in 1..Len(emitted') :
                causes_named(emitted'[i].msg) = {RejectionCause}]_vars

\* C23: when remove_torrent(H) on a hash that was tracked returns, H is no
\* longer in the registry, also when the engine's remove_torrent raised.
RemoveReturns ==
    /\ callerPc \in {"remove_session", "remove_file", "remove_del"}
    /\ callerPc' = "idle"

RemovedAfterRemove ==
    [][RemoveReturns => call.hash \notin DOMAIN torrents']_vars

\* --------------------------------------- the resume file while it is written
\* "with open(filepath, 'wb') as f:" of the save_resume_data branch: the file
\* exists from here on and holds no bytes.
AlertOpen ==
    /\ alertPc = "body"
    /\ alerts[alertIdx].type = "save_resume_data"
    /\ resumeFiles' = DictSet(resumeFiles, get_resume_filepath(alertHash), 0)
    /\ alertPc' = "write"
    /\ emitted' = << >>
    /\ UNCHANGED <<torrents, engineVars, nextObj, alerts, alertIdx, alertHash,
                   alertExc, statusVars, callerVars, pureVars>>
    /\ UNCHANGED guiVars
    /\ Observe

\* "f.write(...)" and the end of the with block: the payload is in the file,
\* or the write raises IOError, which "except IOError" logs, and the file
\* stays as open() left it.
AlertWrite ==
    /\ alertPc = "write"
    /\ \E io_error \in BOOLEAN :
        resumeFiles' =
            IF io_error THEN resumeFiles
            ELSE DictSet(resumeFiles, get_resume_filepath(alertHash),
                         alerts[alertIdx].resume_data)
    /\ NextAlert
    /\ alertHash' = 0
    /\ emitted' = << >>
    /\ UNCHANGED <<torrents, engineVars, nextObj, alerts, alertExc, statusVars,
                   callerVars, pureVars>>
    /\ UNCHANGED guiVars
    /\ Observe

NextWrite ==
    \/ AddPlain
    \/ Remove
    \/ remove_torrent
    \/ remove_from_session
    \/ remove_resume_file
    \/ remove_del
    \/ AnswerSave
    \/ AlertPoll
    \/ AlertCheck
    \/ AlertOpen
    \/ AlertWrite
    \/ AlertSleep

SpecWrite == Init /\ [][NextWrite]_vars

\* C24: at every point, a resume file that exists holds a complete payload
\* (the previous one or the new one), never no bytes or a part of a payload;
\* a process stopped at that point leaves the file as it is.
ResumeFileNeverPartial ==
    \A h \in Hashes :
        get_resume_filepath(h) \in DOMAIN resumeFiles =>
            resumeFiles[get_resume_filepath(h)] \in Blobs

\* ------------------------------------------- the alert loop under scheduling
\* The alert thread is scheduled again and again: a step of its loop that
\* stays possible is taken.
NextLive ==
    \/ AddMagnet
    \/ Remove
    \/ remove_torrent
    \/ remove_from_session
    \/ remove_resume_file
    \/ remove_del
    \/ PostAlert
    \/ AlertPoll
    \/ AlertCheck
    \/ AlertBody
    \/ AlertSleep

SpecLive ==
    /\ Init
    /\ [][NextLive]_vars
    /\ WF_vars(AlertPoll)
    /\ WF_vars(AlertCheck)
    /\ WF_vars(AlertBody)
    /\ WF_vars(AlertSleep)

\* C26: the alert loop comes back to pop_alerts() again and again, also after
\* an exception has ended a batch, and alerts waiting in the engine's queue
\* are eventually popped.
AlertLoopNeverStops ==
    /\ []<>(alertPc = "poll")
    /\ (alertQueue # << >>) ~> (alertQueue = << >>)

\* An exception has ended the batch, the loop is at its sleep, and an alert
\* is waiting in the engine's queue.
AlertLoopWitness ==
    /\ alertExc
    /\ alertPc = "sleep"
    /\ alertQueue # << >>

\* ------------------------------------------------------ MainWindow.closeEvent
\* closeEvent(event) with the answer to the confirmation box (Yes also when
\* confirm_on_exit_flag is off): No ignores the event; Yes starts the loop
\* over self.torrent_client.torrents.items().
closeEvent(reply) ==
    /\ callerPc = "idle"
    /\ IF reply = "Yes"
       THEN /\ call' = Call("closeEvent", 0, <<reply>>, "running", 0)
            /\ shutdown' = [todo |-> KeySeq(DOMAIN torrents),
                            requested |-> {}, slept |-> FALSE]
            /\ callerPc' = IF DOMAIN torrents = {} THEN "close_save"
                           ELSE "close_loop"
       ELSE /\ call' = Call("closeEvent", 0, <<reply>>, "ignored", 0)
            /\ UNCHANGED <<shutdown, callerPc>>
    /\ emitted' = << >>
    /\ UNCHANGED <<torrents, engineVars, resumeFiles, nextObj, alertVars,
                   statusVars, pureVars, stateFile, windowVars>>
    /\ Observe

\* One iteration of the loop: a wrapper with a valid handle is paused
\* (handle.pause(), auto_managed(False), the status_updated with both rates
\* forced to 0) and trigger_save_resume_data asks its handle for a save; a
\* wrapper with an invalid handle is passed over.
close_visit ==
    /\ callerPc = "close_loop"
    /\ LET h == Head(shutdown.todo)
           w == torrents[h]
           rest == Tail(shutdown.todo)
       IN /\ IF is_valid(w.handle)
             THEN /\ session' = [session EXCEPT ![h].paused = TRUE,
                                                ![h].auto_managed = FALSE]
                  /\ emitted' = <<Sig("status_updated", w.obj, h, 0, 0, "")>>
                  /\ saveRequests' = saveRequests \cup {w.handle}
                  /\ shutdown' = [shutdown EXCEPT
                                    !.todo = rest,
                                    !.requested = @ \cup {w.handle}]
             ELSE /\ emitted' = << >>
                  /\ shutdown' = [shutdown EXCEPT !.todo = rest]
                  /\ UNCHANGED <<session, saveRequests>>
          /\ callerPc' = IF rest = << >> THEN "close_save" ELSE "close_loop"
    /\ UNCHANGED <<torrents, settings, alertQueue, nextInst, posted,
                   resumeFiles, nextObj, alertVars, statusVars, call, pureVars,
                   stateFile, windowVars>>
    /\ Observe

EmptyDocument(reg) == << >>

\* state_data['torrents']: source, info_hash and is_completed of every entry
\* of the registry.
StateDocument(reg) ==
    [h \in DOMAIN reg |->
        [source |-> reg[h].source, info_hash |-> h,
         is_completed |-> reg[h].is_completed_flag]]

\* The handles trigger_save_resume_data asks for a save when called for every
\* entry of the registry: the valid ones.
triggered(reg) ==
    {reg[h].handle : h \in {x \in DOMAIN reg : is_valid(reg[x].handle)}}

\* self.save_app_state(): trigger_save_resume_data for every entry, then the
\* state document written to the state file.
save_app_state ==
    /\ callerPc = "close_save"
    /\ saveRequests' = saveRequests \cup triggered(torrents)
    /\ shutdown' = [shutdown EXCEPT !.requested = @ \cup triggered(torrents)]
    /\ stateFile' = <<StateDocument(torrents)>>
    /\ callerPc' = "close_sleep"
    /\ emitted' = << >>
    /\ UNCHANGED <<torrents, session, settings, alertQueue, nextInst, posted,
                   resumeFiles, nextObj, alertVars, statusVars, call, pureVars,
                   windowVars>>
    /\ Observe

\* time.sleep(1.0)
close_sleep ==
    /\ callerPc = "close_sleep"
    /\ shutdown' = [shutdown EXCEPT !.slept = TRUE]
    /\ callerPc' = "close_accept"
    /\ emitted' = << >>
    /\ UNCHANGED <<torrents, engineVars, resumeFiles, nextObj, alertVars,
                   statusVars, call, pureVars, stateFile, windowVars>>
    /\ Observe

\* event.accept(): the window closes and the process ends.
close_accept ==
    /\ callerPc = "close_accept"
    /\ call' = [call EXCEPT !.ret = "accepted"]
    /\ callerPc' = "exited"
    /\ emitted' = << >>
    /\ UNCHANGED <<torrents, engineVars, resumeFiles, nextObj, alertVars,
                   statusVars, pureVars>>
    /\ UNCHANGED guiVars
    /\ Observe

Close == \E reply \in {"Yes", "No"} : closeEvent(reply)

DropWhileRunning == \E h \in Hashes : callerPc # "exited" /\ EngineDrop(h)

NextShutdown ==
    \/ AddPlain
    \/ DropWhileRunning
    \/ Close
    \/ close_visit
    \/ save_app_state
    \/ close_sleep
    \/ close_accept

SpecShutdown == Init /\ [][NextShutdown]_vars

EnginePostError(type, h, error) ==
    /\ posted < MaxAlerts
    /\ h \in DOMAIN session
    /\ alertQueue' = Append(alertQueue,
                            Alert(type, [hash |-> h, inst |-> session[h].inst],
                                  error, 0))
    /\ posted' = posted + 1
    /\ emitted' = << >>
    /\ UNCHANGED <<torrents, session, settings, saveRequests, nextInst,
                   resumeFiles, nextObj, alertVars, statusVars, callerVars,
                   pureVars>>
    /\ UNCHANGED guiVars
    /\ Observe

PostError == \E type \in {"metadata_failed", "torrent_error"}, h \in Hashes,
                error \in {"e1", "e2"} :
                    EnginePostError(type, h, error)

PostFinished == \E h \in Hashes : EnginePostAlert("torrent_finished", h)

NextAlerts ==
    \/ AddPlain
    \/ Remove
    \/ remove_torrent
    \/ remove_from_session
    \/ remove_resume_file
    \/ remove_del
    \/ PostError
    \/ PostFinished
    \/ ReceiveMetadata
    \/ AlertPoll
    \/ AlertCheck
    \/ AlertBody
    \/ AlertSleep

SpecAlerts == Init /\ [][NextAlerts]_vars

\* The step of the alert loop that handles a metadata_failed or torrent_error
\* alert of a tracked hash.
ErrorAlertStep ==
    /\ alertPc = "body"
    /\ alertPc' # "body"
    /\ alerts[alertIdx].type \in {"metadata_failed", "torrent_error"}
    /\ alertHash \in DOMAIN torrents

\* The last_error of a wrapper that stays in the registry does not go from a
\* message back to None.
NeverCleared ==
    \A h \in DOMAIN torrents \cap DOMAIN torrents' :
        (torrents'[h].obj = torrents[h].obj /\ torrents[h].last_error # None)
            => torrents'[h].last_error # None

StaleAlertStep ==
    /\ alertPc \in {"check", "body"}
    /\ (alertPc' # alertPc \/ alertIdx' # alertIdx)
    /\ LET a == alerts[alertIdx]
       IN /\ a.type \in RegistryAlerts
          /\ \/ alertPc = "check" /\ ~is_valid(a.handle)
             \/ a.handle.hash \notin DOMAIN torrents

\* C35: the steps of the alert loop on a metadata_received, metadata_failed,
\* torrent_finished or torrent_error alert whose handle is invalid, or whose
\* hash is not in the registry, leave every wrapper of the registry as it was
\* and emit no signal, and the alert's branch is not entered.
StaleAlertChangesNothing ==
    [][StaleAlertStep =>
        /\ torrents' = torrents
        /\ emitted' = << >>
        /\ alertPc' # "body"]_vars

\* The alert loop has gone past a torrent_error alert whose handle was
\* invalid while its hash was tracked: the one wrapper ever registered is
\* still tracked and has no last_error.
StaleAlertWitness ==
    /\ alerts # << >>
    /\ alertIdx > 1
    /\ alerts[1].type = "torrent_error"
    /\ ~is_valid(alerts[1].handle)
    /\ alerts[1].handle.hash \in DOMAIN torrents
    /\ torrents[alerts[1].handle.hash].obj = 1
    /\ torrents[alerts[1].handle.hash].last_error = None
    /\ nextObj = 2

\* ------------------------------------- client settings across a restart
\* KNOWN_GOOD_SETTINGS_KEYS of main_window.py.
KNOWN_GOOD_SETTINGS_KEYS ==
    {"user_agent", "listen_interfaces", "download_rate_limit",
     "upload_rate_limit", "max_connections_global",
     "max_half_open_connections", "encryption_policy_forced",
     "encryption_policy_enabled", "allowed_enc_level_rc4",
     "allowed_enc_level_plaintext", "allowed_enc_level_pe",
     "announce_to_all_tiers", "announce_to_all_trackers",
     "auto_scrape_interval", "stop_tracker_timeout", "connection_speed",
     "unchoke_slots_limit", "max_allowed_in_request_queue",
     "active_downloads", "active_seeds", "active_limit"}

\* The keys of client_settings_to_save in save_app_state.
SavedSettingsKeys ==
    {"download_rate_limit", "upload_rate_limit", "listen_interfaces",
     "connections_limit", "unchoke_slots_limit", "enable_dht", "enable_lsd",
     "out_enc_policy", "in_enc_policy", "allowed_enc_level"}

\* The values of a setting in the model: Unset is what a fresh session
\* holds, UserSet a value the user chose.
Unset == "unset"
UserSet == "user"

\* The settings of a session that has just been created.
FreshPack ==
    [k \in KNOWN_GOOD_SETTINGS_KEYS \cup SavedSettingsKeys |-> Unset]

\* client_settings_to_save: for each saved key,
\* current_lt_settings_dict.get(key, default).
client_settings_to_save(pack) ==
    [k \in SavedSettingsKeys |-> pack[k]]

\* "{k: v for k, v in client_settings_json.items() if k in
\* KNOWN_GOOD_SETTINGS_KEYS}"
filtered_client_settings(doc) ==
    [k \in DOMAIN doc \cap KNOWN_GOOD_SETTINGS_KEYS |-> doc[k]]

\* The session's settings after load_app_state on a state file holding the
\* client settings doc: apply_session_settings(filtered) when the filtered
\* dict is not empty, every name of it taken to be accepted by the engine.
settings_after_load(doc) ==
    LET filtered == filtered_client_settings(doc)
    IN [k \in DOMAIN FreshPack |->
            IF k \in DOMAIN filtered THEN filtered[k] ELSE FreshPack[k]]

\* The session's settings when save_app_state runs.
InitPersist ==
    /\ InitClient
    /\ probe \in {[k \in DOMAIN FreshPack |->
                        IF k \in SavedSettingsKeys THEN p[k] ELSE Unset] :
                    p \in [SavedSettingsKeys -> {Unset, UserSet}]}
    /\ snap = << >>

\* save_app_state writes the client settings into the state file.
SaveSettings ==
    /\ snap = << >>
    /\ snap' = <<[stage |-> "saved", doc |-> client_settings_to_save(probe)]>>
    /\ UNCHANGED <<torrents, engineVars, resumeFiles, nextObj, alertVars,
                   statusVars, callerVars, emitted, completedEmits, awaitSnap,
                   probe, guiVars>>

\* The next start of the program: a new session, then load_app_state.
LoadSettings ==
    /\ snap # << >>
    /\ snap[1].stage = "saved"
    /\ snap' = <<[stage |-> "loaded", doc |-> snap[1].doc,
                  pack |-> settings_after_load(snap[1].doc)]>>
    /\ UNCHANGED <<torrents, engineVars, resumeFiles, nextObj, alertVars,
                   statusVars, callerVars, emitted, completedEmits, awaitSnap,
                   probe, guiVars>>

NextPersist ==
    \/ SaveSettings
    \/ LoadSettings

SpecPersist == InitPersist /\ [][NextPersist]_vars

\* C36: after the restart that follows a save_app_state, the session holds,
\* for every key of the saved client settings, the value that was saved.
SavedSettingsRestored ==
    (snap # << >> /\ snap[1].stage = "loaded") =>
        \A k \in DOMAIN snap[1].doc : snap[1].pack[k] = snap[1].doc[k]

\* --------------------------------------- MainWindow: table and load_app_state
MaxSaved == 2

\* TorrentTableWidget.add_torrent: a new last row holding the wrapper's hash.
add_torrent_row(rows, h) == Append(rows, h)

\* on_torrent_added, the slot connected to torrent_added: the table after the
\* signals of one step, in the order of their emission.
RECURSIVE on_torrent_added(_, _)
on_torrent_added(rows, signals) ==
    IF signals = << >> THEN rows
    ELSE on_torrent_added(
            IF Head(signals).sig = "torrent_added"
            THEN add_torrent_row(rows, Head(signals).hash) ELSE rows,
            Tail(signals))

\* An entry of the 'torrents' list of a state file; "" and 0 stand for a
\* field that is missing or empty.
SavedEntries ==
    [source : {"", "magnet", "file"}, save_path : {"", "dir"},
     info_hash : {0} \cup Hashes, is_completed : BOOLEAN]

\* The 'torrents' lists of state files: what save_app_state wrote from the
\* registry, one entry per hash, and lists with fields missing.
SavedLists ==
    {l \in UNION {[1..n -> SavedEntries] : n \in 0..MaxSaved} :
        \A i, j \in DOMAIN l :
            (i # j /\ l[i].info_hash # 0) => l[i].info_hash # l[j].info_hash}

\* The resume directories the program can find at startup.
ResumeStores ==
    UNION {[{get_resume_filepath(h) : h \in hs} -> Blobs] : hs \in SUBSET Hashes}

OnlySourceRequired(e) == e.source = ""

\* "if not source or not save_path or not info_hash: continue"
entry_skipped(e) == e.source = "" \/ e.save_path = "" \/ e.info_hash = 0

CompletedNeverLoaded(e) == FALSE

\* "is_completed = torrent_info.get('is_completed', False)"
is_completed_on_load(e) == e.is_completed

\* The program starts with a state file and a resume directory on disk.
InitRestart ==
    /\ InitMemory
    /\ ProbeIdle
    /\ stateFile \in {<<l>> : l \in SavedLists}
    /\ resumeFiles \in ResumeStores
    /\ window = [pc |-> "load", saved_torrents |-> << >>]

\* load_app_state up to "saved_torrents = state_data.get('torrents', [])".
load_app_state ==
    /\ window.pc = "load"
    /\ window' = [pc |-> "restore", saved_torrents |-> stateFile[1]]
    /\ emitted' = << >>
    /\ UNCHANGED <<torrents, engineVars, resumeFiles, nextObj, alertVars,
                   statusVars, callerVars, pureVars, stateFile, shutdown,
                   torrent_hashes>>
    /\ Observe

\* One iteration of "for torrent_info in saved_torrents:": the entry is
\* skipped, or the resume file of its info_hash is read when it exists and
\* add_torrent(source, save_path, resume_data_bytes,
\* is_completed_on_load=is_completed) is called, its result not looked at;
\* the slot on_torrent_added runs inside the emission of torrent_added.
restore_torrent ==
    /\ window.pc = "restore"
    /\ window.saved_torrents # << >>
    /\ LET e == Head(window.saved_torrents)
       IN IF entry_skipped(e)
          THEN /\ emitted' = << >>
               /\ UNCHANGED <<torrents, engineVars, resumeFiles, nextObj,
                              alertVars, statusVars, callerVars, pureVars>>
               /\ Observe
          ELSE \E parses \in BOOLEAN :
                add_torrent_call(e.source, e.info_hash, parses,
                                 load_resume_data(resumeFiles, e.info_hash),
                                 is_completed_on_load(e))
    /\ window' = [window EXCEPT !.saved_torrents = Tail(@)]
    /\ torrent_hashes' = on_torrent_added(torrent_hashes, emitted')
    /\ UNCHANGED <<stateFile, shutdown>>

\* The loop is over; load_app_state returns and the event loop starts.
restore_done ==
    /\ window.pc = "restore"
    /\ window.saved_torrents = << >>
    /\ window' = WindowIdle
    /\ emitted' = << >>
    /\ UNCHANGED <<torrents, engineVars, resumeFiles, nextObj, alertVars,
                   statusVars, callerVars, pureVars, stateFile, shutdown,
                   torrent_hashes>>
    /\ Observe

NextRestart ==
    \/ load_app_state
    \/ restore_torrent
    \/ restore_done
    \/ PostFinished
    \/ ReceiveMetadata
    \/ AlertPoll
    \/ AlertCheck
    \/ AlertBody
    \/ AlertSleep

SpecRestart == InitRestart /\ [][NextRestart]_vars

\* C31: each iteration of the restore loop takes one saved entry; for an
\* entry with a source, a save path and an info_hash it makes one
\* add_torrent call, with the content of the resume file of that info_hash
\* (nothing when there is no file) and the saved is_completed; for an entry
\* missing one of the three it makes no call and changes nothing; whatever
\* add_torrent returned, the loop goes on with the entries that follow; and
\* add_torrent is called by these iterations only.
RestoreStep ==
    /\ window.pc = "restore"
    /\ window.saved_torrents # << >>
    /\ window' # window

SavedCompleted(h) ==
    \E i \in DOMAIN stateFile[1] :
        /\ ~entry_skipped(stateFile[1][i])
        /\ stateFile[1][i].info_hash = h
        /\ stateFile[1][i].is_completed

RestoredCompletedStaysSilent ==
    [][/\ \A h \in DOMAIN torrents' :
            SavedCompleted(h) => torrents'[h].is_completed_flag
       /\ \A i \in Emissions(emitted', "completed") :
            ~SavedCompleted(emitted'[i].hash)]_vars

\* The alert loop has handled a torrent_finished alert of a restored torrent
\* that was saved as completed, and no completed signal was ever emitted.
RestoredCompletedWitness ==
    /\ window = WindowIdle
    /\ alerts # << >>
    /\ alertIdx > 1
    /\ ~alertExc
    /\ alerts[1].type = "torrent_finished"
    /\ alerts[1].handle.hash \in DOMAIN torrents
    /\ SavedCompleted(alerts[1].handle.hash)
    /\ \A o \in DOMAIN completedEmits : completedEmits[o] = 0

\* ------------------------------------ MainWindow: add and remove by the user
\* remove_torrent_row: the first row holding the hash is removed and the
\* rows after it move up; nothing happens when no row holds it.
remove_torrent_row(rows, h) ==
    IF \E i \in 1..Len(rows) : rows[i] = h
    THEN LET at == CHOOSE i \in 1..Len(rows) :
                    /\ rows[i] = h
                    /\ \A j \in 1..(i - 1) : rows[j] # h
         IN SubSeq(rows, 1, at - 1) \o SubSeq(rows, at + 1, Len(rows))
    ELSE rows

\* handle_remove_torrent is between the return of
\* self.torrent_client.remove_torrent and remove_torrent_row.
RowPending == callerPc = "idle" /\ call.op = "remove_torrent"

\* add_torrent_dialog and add_magnet_dialog: add_torrent(source, save_path)
\* for the source the user chose; the slot on_torrent_added runs inside the
\* emission of torrent_added.
add_torrent_dialog(kind, h, parses) ==
    /\ window.pc = "idle"
    /\ ~RowPending
    /\ add_torrent_call(kind, h, parses, 0, FALSE)
    /\ torrent_hashes' = on_torrent_added(torrent_hashes, emitted')
    /\ UNCHANGED <<stateFile, shutdown, window>>

\* handle_remove_torrent(info_hash) for the hash of a row of the table, up
\* to the call of self.torrent_client.remove_torrent.
handle_remove_torrent(h) ==
    /\ window.pc = "idle"
    /\ ~RowPending
    /\ \E i \in 1..Len(torrent_hashes) : torrent_hashes[i] = h
    /\ CallRemove(h)

\* "self.torrent_table.remove_torrent_row(info_hash)", whatever
\* remove_torrent did.
handle_remove_row ==
    /\ RowPending
    /\ torrent_hashes' = remove_torrent_row(torrent_hashes, call.hash)
    /\ call' = [call EXCEPT !.op = "handle_remove_torrent"]
    /\ emitted' = << >>
    /\ UNCHANGED <<torrents, engineVars, resumeFiles, nextObj, alertVars,
                   statusVars, callerPc, pureVars, stateFile, shutdown, window>>
    /\ Observe

AddFromDialog == \E kind \in {"magnet", "file"}, h \in Hashes,
                    parses \in BOOLEAN :
                        add_torrent_dialog(kind, h, parses)

RemoveFromTable == \E h \in Hashes : handle_remove_torrent(h)

NextWindow ==
    \/ AddFromDialog
    \/ RemoveFromTable
    \/ remove_torrent
    \/ remove_from_session
    \/ remove_resume_file
    \/ remove_del
    \/ handle_remove_row
    \/ Drop

SpecWindow == Init /\ [][NextWindow]_vars

\* C38: whenever the main window is between two operations, the hashes of
\* the table's rows are the keys of the registry, each in one row.
RowsMatchRegistry ==
    (callerPc = "idle" /\ ~RowPending) =>
        /\ {torrent_hashes[i] : i \in 1..Len(torrent_hashes)} = DOMAIN torrents
        /\ Len(torrent_hashes) = Cardinality(DOMAIN torrents)

====
